---- MODULE Spec2Model ----
(***************************************************************************)
(* A model of the MCPEDL client (src/src/index.ts, class McpedlAPI; the    *)
(* v1 client is src/index.js).  Spec is the network shell: operations pass *)
(* validation, the Bottleneck limiter, the p-retry loop and the axios      *)
(* interceptors.  SpecParse applies the extraction routines to documents.  *)
(* Time is in milliseconds.  Strings are sequences of one-character        *)
(* strings, so that trim, split and parseInt are computed, not assumed.    *)
(***************************************************************************)
EXTENDS Integers, Sequences, FiniteSets, TLC

\* ------------------------------------------------------------- bounds
NumOps == 2
MaxUpdates == 1
TickMs == 500
MaxGap == 1000
MaxSections == 2
MaxRows == 1
MaxCells == 4
MaxAnchors == 2
MaxGallery == 1
MaxQuick == 2
MaxFooter == 2
MaxTable == 3

\* ------------------------------------------------------------ strings
Space == " "
Slash == "/"

IsSpace(c) == c = Space

Digits == <<"0", "1", "2", "3", "4", "5", "6", "7", "8", "9">>

IsDigit(c) == \E i \in 1..10 : Digits[i] = c

DigitVal(c) == (CHOOSE i \in 1..10 : Digits[i] = c) - 1

RECURSIVE trimStart(_)
trimStart(s) ==
    IF s # <<>> /\ IsSpace(Head(s)) THEN trimStart(Tail(s)) ELSE s

RECURSIVE trimEnd(_)
trimEnd(s) ==
    IF s # <<>> /\ IsSpace(s[Len(s)]) THEN trimEnd(SubSeq(s, 1, Len(s) - 1)) ELSE s

\* String.prototype.trim
trim(s) == trimEnd(trimStart(s))

\* String.prototype.split('/'): the segments between slashes, empty ones kept
RECURSIVE splitAcc(_, _, _)
splitAcc(s, cur, acc) ==
    IF s = <<>> THEN Append(acc, cur)
    ELSE IF Head(s) = Slash THEN splitAcc(Tail(s), <<>>, Append(acc, cur))
    ELSE splitAcc(Tail(s), Append(cur, Head(s)), acc)

split(s) == splitAcc(s, <<>>, <<>>)

\* JavaScript values that reach the code as arguments or attribute values
Undefined == [t |-> "undefined", s |-> <<>>, n |-> 0]
Str(x) == [t |-> "string", s |-> x, n |-> 0]
Num(x) == [t |-> "number", s |-> <<>>, n |-> x]
\* a number that is no integer (1.5); NaN behaves the same in every test made
Fraction == [t |-> "fraction", s |-> <<>>, n |-> 0]
NaN == [t |-> "NaN", s |-> <<>>, n |-> 0]

\* JavaScript truthiness of such a value
Truthy(v) ==
    \/ v.t = "string" /\ v.s # <<>>
    \/ v.t = "number" /\ v.n # 0
    \/ v.t = "fraction"

\* Array.prototype.at(-2) of split('/')
atMinus2(s) ==
    LET parts == split(s)
    IN IF Len(parts) >= 2 THEN Str(parts[Len(parts) - 1]) ELSE Undefined

\* x || d
OrElse(v, d) == IF Truthy(v) THEN v ELSE d

RECURSIVE digitsValue(_, _)
digitsValue(s, acc) ==
    IF s # <<>> /\ IsDigit(Head(s))
    THEN digitsValue(Tail(s), 10 * acc + DigitVal(Head(s)))
    ELSE acc

\* parseInt(string): leading white space skipped, an optional sign, then the
\* longest run of digits; NaN when no digit follows
parseInt(v) ==
    IF v.t # "string" THEN NaN
    ELSE LET s == trimStart(v.s)
             neg == s # <<>> /\ Head(s) = "-"
             r == IF s # <<>> /\ Head(s) \in {"-", "+"} THEN Tail(s) ELSE s
         IN IF r # <<>> /\ IsDigit(Head(r))
            THEN Num(IF neg THEN 0 - digitsValue(r, 0) ELSE digitsValue(r, 0))
            ELSE NaN

\* ---------------------------------------------------------- validation
\* the failure axios rejects with: the status of the response (0 without one)
\* and the error code
AxiosError(status, code) == [status |-> status, code |-> code]
NoOriginal == AxiosError(0, "")

\* new McpedlError(message, code, status, originalError); the message is
\* fixed by the code but for REQUEST_FAILED, status 0 stands for undefined
McpedlErrorOf(code, status, original) ==
    [name |-> "McpedlError", code |-> code, status |-> status, original |-> original]
McpedlError(code, status) == McpedlErrorOf(code, status, NoOriginal)
NoError == McpedlError("", 0)

\* an Error that is no McpedlError: it has no code
PlainError == [name |-> "Error", code |-> "", status |-> 0, original |-> NoOriginal]

\* error instanceof McpedlError
isMcpedlError(e) == e.name = "McpedlError"

\* the code each operation wraps other exceptions in
FailedCode ==
    [search |-> "SEARCH_FAILED", detail |-> "DETAIL_FAILED",
     download |-> "DOWNLOAD_FAILED", mclatest |-> "LATEST_FAILED"]

\* a catch clause that throws again whatever it caught
surfaceUnwrapped(kind, e) == e

\* a catch clause that wraps whatever it caught, a McpedlError included
surfaceWrapped(kind, e) == McpedlErrorOf(FailedCode[kind], 0, AxiosError(e.status, e.name))

\* the catch clause of an operation: a McpedlError is thrown again, any other
\* Error is wrapped with itself as originalError (kept as its status and name)
surface(kind, e) ==
    IF isMcpedlError(e) THEN e
    ELSE McpedlErrorOf(FailedCode[kind], 0, AxiosError(e.status, e.name))

\* Number.isInteger
isInteger(v) == v.t = "number"

\* a query test that forgets to trim
validateQueryUntrimmed(query) == Truthy(query) /\ query.t = "string"

\* the query test of validateSearchParams: TRUE when the query passes
validateQuery(query) == Truthy(query) /\ query.t = "string" /\ Len(trim(query.s)) # 0

validatePage(page) == isInteger(page) /\ page.n >= 1

validateSearchParams(query, page) ==
    IF ~validateQuery(query) THEN McpedlError("INVALID_QUERY", 0)
    ELSE IF page.t # "undefined" /\ ~validatePage(page) THEN McpedlError("INVALID_PAGE", 0)
    ELSE NoError

validateDetailParams(id) ==
    IF ~(Truthy(id) /\ id.t = "string" /\ Len(trim(id.s)) # 0)
    THEN McpedlError("INVALID_ID", 0)
    ELSE NoError

validateDownloadParams(id) ==
    IF ~isInteger(id) \/ id.n <= 0 THEN McpedlError("INVALID_DOWNLOAD_ID", 0)
    ELSE NoError

validateLatestParams(page) ==
    IF ~validatePage(page) THEN McpedlError("INVALID_PAGE", 0) ELSE NoError

\* a default parameter value (page = 1) replaces undefined only
DefaultParam(v, d) == IF v.t = "undefined" THEN d ELSE v


\* ------------------------------------------------------- configuration
DefaultTimeout == 10000
DefaultMaxRetries == 3
DefaultRetryDelay == 1000
DefaultMinTime == 1000
DefaultMaxConcurrent == 2
DefaultBaseURL == Str(<<"https://mcpedl.org">>)
DefaultUserAgent == Str(<<"McpedlAPI/2.0">>)

\* a key that an options object does not have (an explicit undefined is a key)
Absent == [t |-> "absent", s |-> <<>>, n |-> 0]

\* obj.key of an options object: a missing key reads as undefined
Get(v) == IF v.t = "absent" THEN Undefined ELSE v

NoRateLimit == [minTime |-> Absent, maxConcurrent |-> Absent]

\* new McpedlAPI(config): every field is `supplied || default`
Construct(c) ==
    [baseURL |-> OrElse(Get(c.baseURL), DefaultBaseURL),
     timeout |-> OrElse(Get(c.timeout), Num(DefaultTimeout)),
     maxRetries |-> OrElse(Get(c.maxRetries), Num(DefaultMaxRetries)),
     retryDelay |-> OrElse(Get(c.retryDelay), Num(DefaultRetryDelay)),
     rateLimit |->
        [minTime |-> OrElse(Get(c.rateLimit.minTime), Num(DefaultMinTime)),
         maxConcurrent |-> OrElse(Get(c.rateLimit.maxConcurrent), Num(DefaultMaxConcurrent))],
     userAgent |-> OrElse(Get(c.userAgent), DefaultUserAgent)]

\* {...old, ...new}: a key of the new object wins, whatever its value
Spread(old, new) == IF new.t = "absent" THEN old ELSE new

\* an update that takes the rateLimit object of newConfig as it is
MergeConfigShallow(old, c) ==
    [baseURL |-> Spread(old.baseURL, c.baseURL),
     timeout |-> Spread(old.timeout, c.timeout),
     maxRetries |-> Spread(old.maxRetries, c.maxRetries),
     retryDelay |-> Spread(old.retryDelay, c.retryDelay),
     rateLimit |->
        IF c.rateLimit = NoRateLimit THEN old.rateLimit
        ELSE [minTime |-> Get(c.rateLimit.minTime),
              maxConcurrent |-> Get(c.rateLimit.maxConcurrent)],
     userAgent |-> Spread(old.userAgent, c.userAgent)]

\* the configuration object that updateConfig(newConfig) stores
MergeConfig(old, c) ==
    [baseURL |-> Spread(old.baseURL, c.baseURL),
     timeout |-> Spread(old.timeout, c.timeout),
     maxRetries |-> Spread(old.maxRetries, c.maxRetries),
     retryDelay |-> Spread(old.retryDelay, c.retryDelay),
     rateLimit |->
        [minTime |-> Spread(old.rateLimit.minTime, c.rateLimit.minTime),
         maxConcurrent |-> Spread(old.rateLimit.maxConcurrent, c.rateLimit.maxConcurrent)],
     userAgent |-> Spread(old.userAgent, c.userAgent)]

EmptyConfig ==
    [baseURL |-> Absent, timeout |-> Absent, maxRetries |-> Absent,
     retryDelay |-> Absent, rateLimit |-> NoRateLimit, userAgent |-> Absent]

\* a configuration that turns the spacing of requests off
ZeroConfig ==
    [EmptyConfig EXCEPT !.maxRetries = Num(1), !.retryDelay = Num(500),
                        !.rateLimit = [minTime |-> Num(0), maxConcurrent |-> Absent]]

\* a configuration with enough retries for the backoff to reach its cap
DeepRetryConfig == [EmptyConfig EXCEPT !.maxRetries = Num(4), !.retryDelay = Num(500)]

\* the configurations the model constructs the client with
ConstructorInputs ==
    {[EmptyConfig EXCEPT !.maxRetries = r, !.retryDelay = Num(500),
                         !.rateLimit = [minTime |-> Absent, maxConcurrent |-> k]] :
        r \in {Num(1), Num(2)}, k \in {Absent, Num(1)}}
    \cup {ZeroConfig}

\* getConfig(): a copy of this.config
getConfig(c) == [f \in DOMAIN c |-> c[f]]

\* the partial configurations the model passes to updateConfig
UpdateInputs ==
    {[EmptyConfig EXCEPT !.maxRetries = Num(0)],
     [EmptyConfig EXCEPT !.rateLimit = [minTime |-> Absent, maxConcurrent |-> Num(1)]],
     [EmptyConfig EXCEPT !.rateLimit = [minTime |-> Num(500), maxConcurrent |-> Absent]]}

\* ------------------------------------------------------------ documents
\* A fetched HTML document, reduced to what the selectors of the client read:
\*   anchors   the href attribute of every <a>, in document order
\*   sections  the '.entries .g-grid .g-block article section' elements; href is
\*             the href attribute of the first <a> inside (undefined without one),
\*             name the text of 'h2 a', img the src of the first <img>, rating the
\*             text of '.rating-wrapper span'
\*   next      the href attribute of the first 'a.next' (undefined without one)
\*   rows      the '#download-link table tbody tr' rows, each a sequence of <td>
\*             cells [text, forms]; a form is [action, button, title]
\*   quick     the '.archive .dwbuttonslist div[style*="solid"]' elements, each
\*             [href, name, action]
\*   gallery   the '.entry-gallery div div div' elements, each [itemtype, img,
\*             name, uploadDate, duration, onclick]: the itemtype attribute of
\*             the element, the src of its first <img>, the content of its
\*             itemprop name / uploadDate / duration elements and the onclick
\*             of its embedUrl link (undefined where the markup has none)
\*   header    the post header: category the text of '.categories .single-cat',
\*             dateContent and dateText the content attribute and the text of
\*             '.date', author the text of '.meta-author-link .author'
\*   footer    the '.entry-footer-column' elements, each [div, text, span]: in
\*             its '.entry-footer-content' the text of the first <div>, the
\*             text of the text nodes and the text of the last <span>
NoHeader == [category |-> <<>>, dateContent |-> Undefined, dateText |-> <<>>, author |-> <<>>]

Document(anchors, sections, next, rows, quick) ==
    [anchors |-> anchors, sections |-> sections, next |-> next, rows |-> rows,
     quick |-> quick, gallery |-> <<>>, header |-> NoHeader, footer |-> <<>>]

\* the same document with a post header and footer columns
WithInfo(d, header, footer) == [d EXCEPT !.header = header, !.footer = footer]

\* the same document with a gallery
WithGallery(d, gallery) == [d EXCEPT !.gallery = gallery]

Null == [t |-> "null", s |-> <<>>, n |-> 0]

\* str.replace(/\s+/g, ' '): every run of white space becomes one space
RECURSIVE collapseSpaces(_)
collapseSpaces(s) ==
    IF s = <<>> THEN <<>>
    ELSE IF IsSpace(Head(s))
         THEN <<Space>> \o collapseSpaces(trimStart(s))
         ELSE <<Head(s)>> \o collapseSpaces(Tail(s))

\* str.replace(/\//g, ''): every slash removed
RECURSIVE removeSlashes(_)
removeSlashes(s) ==
    IF s = <<>> THEN <<>>
    ELSE IF Head(s) = Slash THEN removeSlashes(Tail(s))
    ELSE <<Head(s)>> \o removeSlashes(Tail(s))

\* attr?.split('/').at(-2) of an attribute value that may be undefined
segmentOf(attr) == IF attr.t = "string" THEN atMinus2(attr.s) ELSE Undefined

\* an id taken from the last segment: at(-1)
entryIdLastSegment(href) ==
    LET parts == split(href.s) IN OrElse(Str(parts[Len(parts)]), Str(<<>>))

\* the id of a listing entry: href.split('/').at(-2) || ''
entryId(href) == OrElse(atMinus2(href.s), Str(<<>>))

\* one entry of a listing (search and mclatest build it alike)
SearchItem(sec) ==
    [name |-> trim(sec.name),
     id |-> entryId(sec.href).s,
     img |-> OrElse(sec.img, Str(<<>>)),
     rating |-> trim(sec.rating)]

RECURSIVE entryList(_)
entryList(sections) ==
    IF sections = <<>> THEN <<>>
    ELSE IF Truthy(Head(sections).href)
         THEN <<SearchItem(Head(sections))>> \o entryList(Tail(sections))
         ELSE entryList(Tail(sections))

parseSearchResults(doc) ==
    [list |-> entryList(doc.sections),
     hasNextPage |-> Truthy(doc.next),
     nextPage |-> IF Truthy(doc.next) THEN parseInt(segmentOf(doc.next)) ELSE Undefined]

\* one <form> of a download cell
DownloadFile(form, i) ==
    [index |-> i,
     type |-> trim(collapseSpaces(form.button)),
     id |-> parseInt(OrElse(segmentOf(form.action), Str(<<"0">>))),
     meta_title |-> OrElse(form.title, Null)]

fileList(forms) == [i \in 1..Len(forms) |-> DownloadFile(forms[i], i)]

\* a version that is not trimmed
rowVersionVerbatim(tds) == IF Len(tds) = 3 THEN tds[2].text ELSE <<"N", "/", "A">>

\* the version of a table row: the middle cell of three, else "N/A"
rowVersion(tds) == IF Len(tds) = 3 THEN trim(tds[2].text) ELSE <<"N", "/", "A">>

\* the name of a table row: null unless the row has two or three cells
rowName(tds) == IF Len(tds) \in {2, 3} THEN Str(trim(tds[1].text)) ELSE Null

\* the forms of a table row: those of its last cell of two or three
rowForms(tds) == IF Len(tds) \in {2, 3} THEN tds[Len(tds)].forms ELSE <<>>

\* a table whose items are numbered 1, 2, ... in the order they are kept
tableItemsRenumbered(rows, j) ==
    LET kept == SelectSeq(rows, LAMBDA tds : Truthy(rowName(tds)))
    IN [k \in 1..Len(kept) |->
           [index |-> k, name |-> rowName(kept[k]).s,
            version |-> rowVersion(kept[k]), files |-> fileList(rowForms(kept[k]))]]

\* the rows from the j-th on: a row with a name becomes an item, with the
\* position of the row as its index
RECURSIVE tableItems(_, _)
tableItems(rows, j) ==
    IF j > Len(rows) THEN <<>>
    ELSE LET tds == rows[j]
             item == [index |-> j, name |-> rowName(tds).s,
                      version |-> rowVersion(tds), files |-> fileList(rowForms(tds))]
         IN IF Truthy(rowName(tds)) THEN <<item>> \o tableItems(rows, j + 1)
            ELSE tableItems(rows, j + 1)

parseDownloadTable(doc) == tableItems(doc.rows, 1)

\* String.prototype.includes
includes(s, sub) ==
    \E i \in 1..(Len(s) - Len(sub) + 1) : SubSeq(s, i, i + Len(sub) - 1) = sub

VideoWord == <<"V", "i", "d", "e", "o">>
SrcPrefix == <<"s", "r", "c", ":", " ", "'">>
Quote == "'"

\* where /src: '(.*?)'/ can match in s: after the prefix at i, up to a quote at j
srcMatches(s) ==
    {m \in (1..Len(s)) \X (1..Len(s)) :
        /\ m[2] >= m[1] + Len(SrcPrefix)
        /\ SubSeq(s, m[1], m[1] + Len(SrcPrefix) - 1) = SrcPrefix
        /\ s[m[2]] = Quote}

\* onclick?.match(/src: '(.*?)'/)?.[1]: the leftmost match, its group as short
\* as can be; undefined without the attribute or without a match
matchSrc(onclick) ==
    IF onclick.t # "string" \/ srcMatches(onclick.s) = {} THEN Undefined
    ELSE LET ms == srcMatches(onclick.s)
             i == CHOOSE i \in {m[1] : m \in ms} : \A m \in ms : i <= m[1]
             j == CHOOSE j \in {m[2] : m \in {n \in ms : n[1] = i}} :
                     \A m \in ms : m[1] = i => j <= m[2]
         IN Str(SubSeq(onclick.s, i + Len(SrcPrefix), j - 1))

\* el.attribs?.itemtype?.includes('Video')
isVideo(el) == el.itemtype.t = "string" /\ includes(el.itemtype.s, VideoWord)

\* video fields that leave out what the markup does not have
videoFieldsPresentOnly(el) ==
    LET named == [name |-> OrElse(el.name, Str(<<>>)),
                  postTime |-> OrElse(el.uploadDate, Str(<<>>))]
        timed == IF Truthy(el.duration) THEN [duration |-> el.duration] ELSE <<>>
        linked == IF Truthy(matchSrc(el.onclick)) THEN [video |-> matchSrc(el.onclick)]
                  ELSE <<>>
    IN named @@ timed @@ linked

\* the object spread into a video entry
videoFields(el) ==
    [name |-> OrElse(el.name, Str(<<>>)),
     postTime |-> OrElse(el.uploadDate, Str(<<>>)),
     duration |-> OrElse(el.duration, Null),
     video |-> OrElse(matchSrc(el.onclick), Null)]

\* one gallery entry: type and img, and for a video the video fields
GalleryItem(el) ==
    [type |-> IF isVideo(el) THEN "video" ELSE "image",
     img |-> OrElse(el.img, Str(<<>>))]
    @@ (IF isVideo(el) THEN videoFields(el) ELSE <<>>)

galleryList(els) == [i \in 1..Len(els) |-> GalleryItem(els[i])]

UpperCase ==
    <<"A", "B", "C", "D", "E", "F", "G", "H", "I", "J", "K", "L", "M",
      "N", "O", "P", "Q", "R", "S", "T", "U", "V", "W", "X", "Y", "Z">>
LowerCase ==
    <<"a", "b", "c", "d", "e", "f", "g", "h", "i", "j", "k", "l", "m",
      "n", "o", "p", "q", "r", "s", "t", "u", "v", "w", "x", "y", "z">>

\* String.prototype.toLowerCase
toLowerCase(s) ==
    [i \in 1..Len(s) |->
        IF \E k \in 1..Len(UpperCase) : UpperCase[k] = s[i]
        THEN LowerCase[CHOOSE k \in 1..Len(UpperCase) : UpperCase[k] = s[i]]
        ELSE s[i]]

Colon == ":"
Underscore == "_"

\* str.replace(':', ''): the first colon removed
RECURSIVE removeColon(_)
removeColon(s) ==
    IF s = <<>> THEN <<>>
    ELSE IF Head(s) = Colon THEN Tail(s)
    ELSE <<Head(s)>> \o removeColon(Tail(s))

\* str.replace(/\s+/g, '_'): every run of white space becomes one underscore
RECURSIVE underscoreSpaces(_)
underscoreSpaces(s) ==
    IF s = <<>> THEN <<>>
    ELSE IF IsSpace(Head(s))
         THEN <<Underscore>> \o underscoreSpaces(trimStart(s))
         ELSE <<Head(s)>> \o underscoreSpaces(Tail(s))

\* the keys of the info map that the code names
CategoryKey == <<"c", "a", "t", "e", "g", "o", "r", "y">>
PostDateKey == <<"p", "o", "s", "t", "D", "a", "t", "e">>
AuthorKey == <<"a", "u", "t", "h", "o", "r">>
GameAuthorKey == <<"g", "a", "m", "e", "_", "a", "u", "t", "h", "o", "r">>
AuthorLabel == <<"A", "u", "t", "h", "o", "r">>

\* the footer keys the code does not store
SkippedKeys ==
    {<<"c", "a", "t", "e", "g", "o", "r", "i", "e", "s">>,
     <<"p", "u", "b", "l", "i", "c", "a", "t", "i", "o", "n", "_", "d", "a", "t", "e">>,
     AuthorKey}

\* !['categories', 'publication_date', 'author'].includes(key) negated
skipsKey(key) == key \in SkippedKeys

\* the info map read from the post header
headerInfo(h) ==
    (CategoryKey :> trim(h.category))
    @@ (PostDateKey :> OrElse(h.dateContent, Str(trim(h.dateText))).s)
    @@ (AuthorKey :> trim(h.author))

\* the label of a footer column: the text of the first div, else the text
\* nodes, trimmed and without its first colon
footerLabel(col) ==
    IF removeColon(trim(col.div)) # <<>> THEN removeColon(trim(col.div))
    ELSE removeColon(trim(col.text))

footerValue(col) == trim(col.span)

footerKey(label) == underscoreSpaces(toLowerCase(label))

\* info[key] = value
setKey(info, key, value) == (key :> value) @@ info

\* one '.entry-footer-column' applied to the info map; authorNow is what the
\* code reads as the author of the post
footerColumn(info, col, authorNow) ==
    LET label == footerLabel(col)
        value == footerValue(col)
        stored == IF skipsKey(footerKey(label)) THEN info
                  ELSE setKey(info, footerKey(label), value)
    IN IF label = <<>> \/ value = <<>> THEN info
       ELSE IF label = AuthorLabel /\ authorNow # <<>> /\ value # authorNow
            THEN setKey(stored, GameAuthorKey, value)
            ELSE stored

\* the columns applied in document order; info.author is read anew each time
RECURSIVE footerInfo(_, _)
footerInfo(info, cols) ==
    IF cols = <<>> THEN info
    ELSE footerInfo(footerColumn(info, Head(cols), info[AuthorKey]), Tail(cols))

\* the info map of the detail record
detailInfo(doc) == footerInfo(headerInfo(doc.header), doc.footer)

\* the detail record; of its fields the model keeps the info map, the
\* gallery and the download list
parseDetailResults(doc) ==
    [info |-> detailInfo(doc), gallery |-> galleryList(doc.gallery),
     list |-> parseDownloadTable(doc)]

QuickDownload(q) ==
    [name |-> q.name,
     id |-> removeSlashes(q.href.s),
     file |-> parseInt(OrElse(segmentOf(q.action), Str(<<"0">>)))]

RECURSIVE quickList(_)
quickList(qs) ==
    IF qs = <<>> THEN <<>>
    ELSE IF Truthy(Head(qs).href)
         THEN <<QuickDownload(Head(qs))>> \o quickList(Tail(qs))
         ELSE quickList(Tail(qs))

\* the record mclatest builds from the fetched page
parseLatest(doc) == [quick |-> quickList(doc.quick), list |-> entryList(doc.sections)]

\* the first href there is, of whichever <a>
firstAnchorWithHref(doc) ==
    LET withHref == SelectSeq(doc.anchors, Truthy)
    IN IF withHref = <<>> THEN Undefined ELSE Head(withHref)

\* $('a').attr('href'): the attribute of the first matched element
firstAnchorHref(doc) == IF doc.anchors = <<>> THEN Undefined ELSE Head(doc.anchors)

\* the body of download after the fetch: the record, or the error thrown
downloadResult(doc) ==
    LET url == firstAnchorHref(doc)
    IN IF ~Truthy(url)
       THEN [ok |-> FALSE, value |-> Undefined, error |-> McpedlError("DOWNLOAD_URL_NOT_FOUND", 0)]
       ELSE [ok |-> TRUE, value |-> [url |-> url], error |-> NoError]

\* ------------------------------------------- the original client (Mcpedl)
\* what a method of the original client does with a fetched document: it
\* returns a record or raises the TypeError of reading a property of undefined
Returned(value) == [ok |-> TRUE, value |-> value, error |-> ""]
RaisedTypeError == [ok |-> FALSE, value |-> Undefined, error |-> "TypeError"]

\* str.split('/')?.[2]
segment2(s) ==
    LET parts == split(s) IN IF Len(parts) >= 3 THEN Str(parts[3]) ELSE Undefined

\* one entry of a listing of the original client
Mcpedl_item(sec) ==
    [name |-> sec.name,
     id |-> atMinus2(sec.href.s),
     img |-> sec.img,
     rating |-> trim(sec.rating)]

RECURSIVE Mcpedl_entryList(_)
Mcpedl_entryList(sections) ==
    IF sections = <<>> THEN <<>>
    ELSE IF Truthy(Head(sections).href)
         THEN <<Mcpedl_item(Head(sections))>> \o Mcpedl_entryList(Tail(sections))
         ELSE Mcpedl_entryList(Tail(sections))

Mcpedl_search(doc) ==
    Returned([list |-> Mcpedl_entryList(doc.sections),
              hasNextPage |-> Truthy(doc.next),
              nextPage |-> IF Truthy(doc.next) THEN atMinus2(doc.next.s) ELSE Null])

\* the forms of a row, in document order
RECURSIVE rowFormsAll(_)
rowFormsAll(tds) ==
    IF tds = <<>> THEN <<>> ELSE Head(tds).forms \o rowFormsAll(Tail(tds))

\* $(el).find('td > form').attr('action').split('/'): raises unless the first
\* form of the row has an action
rowActionReadable(tds) ==
    rowFormsAll(tds) # <<>> /\ Head(rowFormsAll(tds)).action.t = "string"

Mcpedl_file(form, i) ==
    [index |-> i,
     type |-> trim(collapseSpaces(form.button)),
     id |-> parseInt(segment2(form.action.s)),
     meta_title |-> OrElse(form.title, Null)]

Mcpedl_tableRow(tds, j) ==
    LET shaped == Len(tds) \in {2, 3}
        forms == IF shaped THEN tds[Len(tds)].forms ELSE <<>>
    IN [index |-> j,
        name |-> IF shaped THEN Str(trim(tds[1].text)) ELSE Null,
        version |-> IF Len(tds) = 3 THEN Str(trim(tds[2].text))
                    ELSE IF Len(tds) = 2 THEN Str(<<"N", "/", "A">>) ELSE Null,
        files |-> [i \in 1..Len(forms) |-> Mcpedl_file(forms[i], i)]]

\* _parseTable: one item per row; raises on a form without an action
Mcpedl_parseTable(doc) ==
    IF \E j \in 1..Len(doc.rows) :
          Len(doc.rows[j]) \in {2, 3}
          /\ \E i \in 1..Len(doc.rows[j][Len(doc.rows[j])].forms) :
                doc.rows[j][Len(doc.rows[j])].forms[i].action.t # "string"
    THEN RaisedTypeError
    ELSE Returned([j \in 1..Len(doc.rows) |-> Mcpedl_tableRow(doc.rows[j], j)])

Mcpedl_galleryItem(el) ==
    [type |-> IF isVideo(el) THEN "video" ELSE "image", img |-> el.img]
    @@ (IF isVideo(el) THEN videoFields(el) ELSE <<>>)

\* the footer loop of the original client: it reads info.postAuthor, a field
\* the info map never has, where McpedlAPI reads info.author
RECURSIVE Mcpedl_footerInfo(_, _)
Mcpedl_footerInfo(info, cols) ==
    IF cols = <<>> THEN info
    ELSE Mcpedl_footerInfo(footerColumn(info, Head(cols), <<>>), Tail(cols))

Mcpedl_detail(doc) ==
    IF \E j \in 1..Len(doc.rows) : ~rowActionReadable(doc.rows[j])
    THEN RaisedTypeError
    ELSE IF ~Mcpedl_parseTable(doc).ok THEN RaisedTypeError
    ELSE Returned([info |-> Mcpedl_footerInfo(headerInfo(doc.header), doc.footer),
                   gallery |-> [i \in 1..Len(doc.gallery) |->
                                   Mcpedl_galleryItem(doc.gallery[i])],
                   list |-> Mcpedl_parseTable(doc).value])

Mcpedl_download(doc) == Returned([url |-> firstAnchorHref(doc)])

Mcpedl_quick(q) ==
    [name |-> q.name,
     id |-> removeSlashes(q.href.s),
     file |-> parseInt(segment2(q.action.s))]

Mcpedl_mclatest(doc) ==
    IF \E i \in 1..Len(doc.quick) :
          Truthy(doc.quick[i].href) /\ doc.quick[i].action.t # "string"
    THEN RaisedTypeError
    ELSE Returned([quick |-> [i \in 1..Len(SelectSeq(doc.quick, LAMBDA q : Truthy(q.href))) |->
                                 Mcpedl_quick(SelectSeq(doc.quick, LAMBDA q : Truthy(q.href))[i])],
                   list |-> Mcpedl_entryList(doc.sections)])

\* the method of the original client named kind, after the fetch
Mcpedl_extract(kind, doc) ==
    CASE kind = "search" -> Mcpedl_search(doc)
      [] kind = "detail" -> Mcpedl_detail(doc)
      [] kind = "download" -> Mcpedl_download(doc)
      [] kind = "mclatest" -> Mcpedl_mclatest(doc)

\* _handleError: the sentinel for a 404, any other failure is thrown again
PageNotFound == [error |-> TRUE, message |-> "Page Not Found"]
Mcpedl_handleError(status) ==
    IF status = 404 THEN Returned(PageNotFound)
    ELSE [ok |-> FALSE, value |-> Undefined, error |-> "AxiosError"]

\* a method of the original client on the response to its one request; axios
\* resolves a status from 200 to 299 and rejects any other
Mcpedl_respond(kind, status, body) ==
    IF status >= 200 /\ status < 300 THEN Mcpedl_extract(kind, body)
    ELSE Mcpedl_handleError(status)

BlankPage == Document(<<>>, <<>>, Undefined, <<>>, <<>>)
\* a page whose only link leads home, as an error page has
HomeLinkPage == Document(<<Str(<<"/">>)>>, <<>>, Undefined, <<>>, <<>>)
\* a page whose first <a> has no href and whose second has one
BareAnchorPage == Document(<<Undefined, Str(<<"u">>)>>, <<>>, Undefined, <<>>, <<>>)
\* a listing page with one entry and a next link
ListingPage ==
    Document(<<Str(<<"/", "a", "/">>), Str(<<"/", "2", "/">>)>>,
             <<[href |-> Str(<<"/", "a", "/">>), name |-> <<"n">>,
                img |-> Undefined, rating |-> <<"5">>]>>,
             Str(<<"/", "2", "/">>), <<>>, <<>>)

\* a page whose first <a> has an empty href
EmptyHrefPage == Document(<<Str(<<>>), Str(<<"u">>)>>, <<>>, Undefined, <<>>, <<>>)

\* the body `null`, which axios parses as JSON: the data is null
JsonNull == Null

\* the bodies the modelled server answers with
Bodies == {BlankPage, HomeLinkPage, BareAnchorPage, EmptyHrefPage, ListingPage, JsonNull}

\* ------------------------------------------------------- HTTP and retry
\* axios validateStatus: the response resolves when TRUE, rejects otherwise
validateStatus(status) == status < 500

\* an error handler that looks for another timeout code
classifyOtherTimeoutCode(status, code) ==
    LET error == AxiosError(status, code)
    IN IF status = 404 THEN McpedlErrorOf("NOT_FOUND", status, error)
       ELSE IF status = 429 THEN McpedlErrorOf("RATE_LIMIT", status, error)
       ELSE IF status # 0 /\ status >= 500 THEN McpedlErrorOf("SERVER_ERROR", status, error)
       ELSE IF code = "ETIMEDOUT" THEN McpedlErrorOf("TIMEOUT", 0, error)
       ELSE McpedlErrorOf("REQUEST_FAILED", status, error)

\* the response interceptor's error handler; status 0 stands for no response
classify(status, code) ==
    LET error == AxiosError(status, code)
    IN IF status = 404 THEN McpedlErrorOf("NOT_FOUND", status, error)
       ELSE IF status = 429 THEN McpedlErrorOf("RATE_LIMIT", status, error)
       ELSE IF status # 0 /\ status >= 500 THEN McpedlErrorOf("SERVER_ERROR", status, error)
       ELSE IF code = "ECONNABORTED" THEN McpedlErrorOf("TIMEOUT", 0, error)
       ELSE McpedlErrorOf("REQUEST_FAILED", status, error)

\* what the modelled server and network do to one request
ServerStatuses == {200, 404, 429, 503}
NetworkErrorCodes == {"ECONNABORTED", "ERR_NETWORK"}
\* a failure that another attempt cannot mend: the server redirects in a loop
RedirectLoopCode == "ERR_FR_TOO_MANY_REDIRECTS"

\* the body that comes with a status: an error status brings the error page
BodiesFor(status, bodies) == IF status = 200 THEN bodies ELSE {HomeLinkPage}

Min(a, b) == IF a <= b THEN a ELSE b
Max(a, b) == IF a >= b THEN a ELSE b

RECURSIVE pow2(_)
pow2(k) == IF k <= 0 THEN 1 ELSE 2 * pow2(k - 1)

\* a backoff without the cap
backoffDelayUncapped(k, minTimeout, maxTimeout) == minTimeout * pow2(k - 1)

\* the wait before retry k (k >= 1) with factor 2 and no randomisation
backoffDelay(k, minTimeout, maxTimeout) == Min(minTimeout * pow2(k - 1), maxTimeout)

\* a retry test that is off by one
hasRetryLeftOffByOne(attempts, retries) == attempts <= retries + 1

\* whether p-retry makes another attempt after `attempts` failed ones
hasRetryLeft(attempts, retries) == attempts <= retries

\* the error of a failed attempt list that the `retry` package calls the main
\* error: the one whose message occurs most often, the later one on a tie
RECURSIVE mainErrorAcc(_, _, _, _)
mainErrorAcc(errs, i, best, bestCount) ==
    IF i > Len(errs) THEN best
    ELSE LET count == Cardinality({j \in 1..i : errs[j].code = errs[i].code})
         IN IF count >= bestCount THEN mainErrorAcc(errs, i + 1, errs[i], count)
            ELSE mainErrorAcc(errs, i + 1, best, bestCount)

mainError(errs) == mainErrorAcc(errs, 1, NoError, 0)

\* the rejection of an exhausted p-retry: the last error, or with the releases
\* built on the `retry` package its main error
FinalErrors(errs) == {errs[Len(errs)], mainError(errs)}

\* ------------------------------------------------------------ the state
VARIABLES
    config,     \* this.config
    client,     \* the axios instance defaults: timeout, baseURL, User-Agent
    limiter,    \* the Bottleneck instance: settings, next start time, queue
    ops,        \* the calls of search, detail, download and mclatest
    updates,    \* the number of updateConfig calls made
    http,       \* the time since the latest HTTP request started, up to MaxGap
    held,       \* the object a caller holds from its latest getConfig() call
    doc,        \* the document handed to an extraction routine
    parsed      \* what the routine returned

vars == <<config, client, limiter, ops, updates, http, held, doc, parsed>>
netVars == <<config, client, limiter, ops, updates, http, held>>
parseVars == <<doc, parsed>>

OpIds == 1..NumOps
NewOp ==
    [kind |-> "none", a1 |-> Undefined, a2 |-> Undefined, pc |-> "new",
     attempts |-> 0, errs |-> <<>>, timer |-> 0,
     retries |-> 0, minTimeout |-> 0, maxTimeout |-> 0,
     calledRetries |-> 0, calledDelay |-> 0,
     status |-> 0, sent |-> Undefined, data |-> Undefined, ret |-> Undefined,
     err |-> NoError]

NotParsed == [fn |-> "none", out |-> Undefined]

ClientOf(c) == [timeout |-> c.timeout, baseURL |-> c.baseURL, userAgent |-> c.userAgent]

\* an update that hands the limiter the default settings
SettingsOfDefaults(c) ==
    [minTime |-> Num(DefaultMinTime), maxConcurrent |-> Num(DefaultMaxConcurrent)]

\* the settings updateConfig hands to limiter.updateSettings
SettingsOf(c) == [minTime |-> c.rateLimit.minTime, maxConcurrent |-> c.rateLimit.maxConcurrent]

\* no getConfig() call yet
NotHeld == [taken |-> FALSE, obj |-> getConfig(Construct(EmptyConfig)), shared |-> FALSE]

\* no request yet: nothing to keep a distance from
NoHttp == MaxGap

InitNet(inputs) ==
    /\ \E c \in inputs :
         /\ config = Construct(c)
         /\ client = ClientOf(Construct(c))
         /\ limiter = [minTime |-> Construct(c).rateLimit.minTime,
                       maxConcurrent |-> Construct(c).rateLimit.maxConcurrent,
                       nextIn |-> 0, queue |-> <<>>, pending |-> <<>>]
    /\ ops = [o \in OpIds |-> NewOp]
    /\ updates = 0
    /\ http = NoHttp
    /\ held = NotHeld

\* ---------------------------------------------------------- operations
QueryInputs == {Str(<<>>), Str(<<Space>>), Str(<<Space, "a">>)}
PageInputs == {Undefined, Num(0), Num(-1), Fraction}
IdInputs == {Undefined, Str(<<Space>>), Str(<<"a">>)}
DownloadIdInputs == {Num(0), Num(-1), Num(7), Fraction}

\* the calls the model makes, with default parameters filled in
Calls ==
    {[kind |-> "search", a1 |-> q, a2 |-> DefaultParam(p, Num(1))] :
        q \in QueryInputs, p \in PageInputs}
    \cup {[kind |-> "detail", a1 |-> i, a2 |-> Undefined] : i \in IdInputs}
    \cup {[kind |-> "download", a1 |-> i, a2 |-> Undefined] : i \in DownloadIdInputs}
    \cup {[kind |-> "mclatest", a1 |-> DefaultParam(p, Num(1)), a2 |-> Undefined] :
        p \in PageInputs}

\* the validation each operation runs first: the error thrown, or NoError
validate(call) ==
    CASE call.kind = "search" -> validateSearchParams(call.a1, call.a2)
      [] call.kind = "detail" -> validateDetailParams(call.a1)
      [] call.kind = "download" -> validateDownloadParams(call.a1)
      [] call.kind = "mclatest" -> validateLatestParams(call.a1)

\* a limiter whose jobs keep their slot after they have failed
HoldsSlotAfterFailure(op) == op.pc \in {"registered", "inflight", "backoff", "failed"}

\* the jobs Bottleneck counts as running: registered, executing or backing off
HoldsSlot(op) == op.pc \in {"registered", "inflight", "backoff"}
Holders == {o \in OpIds : HoldsSlot(ops[o])}

Settled(op) == op.pc \in {"done", "failed"}

\* search / detail / download / mclatest up to makeRequest: validation, then
\* limiter.schedule puts the job in the queue; calledRetries and calledDelay
\* keep the maxRetries and retryDelay of this.config at the time of the call
Invoke(o, call) ==
    /\ ops[o].pc = "new"
    /\ \A p \in OpIds : p < o => ops[p].pc # "new"
    /\ LET e == validate(call)
           base == [NewOp EXCEPT !.kind = call.kind, !.a1 = call.a1, !.a2 = call.a2,
                                 !.calledRetries = config.maxRetries.n,
                                 !.calledDelay = config.retryDelay.n]
       IN IF e # NoError
          THEN /\ ops' = [ops EXCEPT ![o] = [base EXCEPT !.pc = "failed", !.err = e]]
               /\ UNCHANGED limiter
          ELSE /\ ops' = [ops EXCEPT ![o] = [base EXCEPT !.pc = "queued"]]
               /\ limiter' = [limiter EXCEPT !.queue = Append(@, o)]
    /\ UNCHANGED <<config, client, updates, http, held, parseVars>>

\* a capacity test that lets every job through
hasCapacityUnchecked(running, maxConcurrent) == TRUE

\* a capacity test that lets one job too many through
hasCapacityOffByOne(running, maxConcurrent) ==
    maxConcurrent.t # "number" \/ running <= maxConcurrent.n

\* Bottleneck's capacity test for a job of weight 1
hasCapacity(running, maxConcurrent) ==
    maxConcurrent.t # "number" \/ running + 1 <= maxConcurrent.n

\* Bottleneck registers the head of the queue: it takes a slot and is given
\* its start time, minTime after the start given to the job before
Register(o) ==
    /\ limiter.queue # <<>>
    /\ o = Head(limiter.queue)
    /\ hasCapacity(Cardinality(Holders), limiter.maxConcurrent)
    /\ LET wait == limiter.nextIn
       IN /\ limiter' = [limiter EXCEPT !.queue = Tail(@),
                                        !.nextIn = wait + limiter.minTime.n]
          /\ ops' = [ops EXCEPT ![o].pc = "registered", ![o].timer = wait]
    /\ UNCHANGED <<config, client, updates, http, held, parseVars>>

\* retry options that ignore the configuration
retryOptionsDefault(c) ==
    [retries |-> DefaultMaxRetries, minTimeout |-> DefaultRetryDelay,
     maxTimeout |-> DefaultRetryDelay * 4]

\* the options makeRequest passes to pRetry
retryOptions(c) ==
    [retries |-> c.maxRetries.n, minTimeout |-> c.retryDelay.n,
     maxTimeout |-> c.retryDelay.n * 4]

\* the job runs: makeRequest calls pRetry with the options read from
\* this.config now, and pRetry makes the first attempt
Start(o) ==
    /\ ops[o].pc = "registered"
    /\ ops[o].timer = 0
    /\ ops' = [ops EXCEPT ![o].pc = "inflight", ![o].attempts = 1,
                          ![o].retries = retryOptions(config).retries,
                          ![o].minTimeout = retryOptions(config).minTimeout,
                          ![o].maxTimeout = retryOptions(config).maxTimeout]
    /\ http' = 0
    /\ UNCHANGED <<config, client, limiter, updates, held, parseVars>>

\* what makeRequest resolves with: the data of the response
responseData(body) == body

\* cheerio.load(data): the document, or for data that is null an Error thrown
\* or (with a release that accepts it) an empty document
load(data) ==
    IF data = JsonNull
    THEN {[ok |-> FALSE, doc |-> BlankPage, error |-> PlainError],
          [ok |-> TRUE, doc |-> BlankPage, error |-> NoError]}
    ELSE {[ok |-> TRUE, doc |-> data, error |-> NoError]}

\* the rest of an operation once makeRequest has resolved with `data` and
\* cheerio.load has ended as `loaded`
finish(op, data, loaded) ==
    IF ~loaded.ok
    THEN [op EXCEPT !.pc = "failed", !.data = data, !.err = surface(op.kind, loaded.error)]
    ELSE
    CASE op.kind = "search" ->
            [op EXCEPT !.pc = "done", !.data = data, !.ret = parseSearchResults(loaded.doc)]
      [] op.kind = "detail" ->
            [op EXCEPT !.pc = "done", !.data = data, !.ret = parseDetailResults(loaded.doc)]
      [] op.kind = "mclatest" ->
            [op EXCEPT !.pc = "done", !.data = data, !.ret = parseLatest(loaded.doc)]
      [] op.kind = "download" ->
            LET r == downloadResult(loaded.doc)
            IN IF r.ok THEN [op EXCEPT !.pc = "done", !.data = data, !.ret = r.value]
               ELSE [op EXCEPT !.pc = "failed", !.data = data,
                               !.err = surface(op.kind, r.error)]

\* a failed attempt: p-retry waits and retries, or gives up and rejects with e
failAttempt(op, err, e) ==
    LET errs == Append(op.errs, err)
    IN IF hasRetryLeft(op.attempts, op.retries)
       THEN [op EXCEPT !.pc = "backoff", !.errs = errs,
                       !.timer = backoffDelay(op.attempts, op.minTimeout, op.maxTimeout)]
       ELSE [op EXCEPT !.pc = "failed", !.errs = errs, !.err = surface(op.kind, e)]

\* the server answers the request in flight
Response(o, status, body) ==
    /\ ops[o].pc = "inflight"
    /\ LET op == [ops[o] EXCEPT !.status = status, !.sent = body]
       IN IF validateStatus(status)
          THEN \E loaded \in load(responseData(body)) :
                  ops' = [ops EXCEPT ![o] = finish(op, responseData(body), loaded)]
          ELSE \E e \in FinalErrors(Append(op.errs, classify(status, "ERR_BAD_RESPONSE"))) :
                  ops' = [ops EXCEPT ![o] =
                            failAttempt(op, classify(status, "ERR_BAD_RESPONSE"), e)]
    /\ UNCHANGED <<config, client, limiter, updates, http, held, parseVars>>

\* the request in flight fails without a response: a timeout or abort
\* (ECONNABORTED) or a network failure
NetworkError(o, code) ==
    /\ ops[o].pc = "inflight"
    /\ LET op == [ops[o] EXCEPT !.status = 0, !.sent = Undefined]
       IN \E e \in FinalErrors(Append(op.errs, classify(0, code))) :
             ops' = [ops EXCEPT ![o] = failAttempt(op, classify(0, code), e)]
    /\ UNCHANGED <<config, client, limiter, updates, http, held, parseVars>>

\* the backoff timer fires and p-retry makes the next attempt
Retry(o) ==
    /\ ops[o].pc = "backoff"
    /\ ops[o].timer = 0
    /\ ops' = [ops EXCEPT ![o].pc = "inflight", ![o].attempts = @ + 1]
    /\ http' = 0
    /\ UNCHANGED <<config, client, limiter, updates, held, parseVars>>

\* TickMs pass: every timer comes that much closer to being due (a timer that
\* is due may fire at any later moment)
Tick ==
    /\ ops' = [o \in OpIds |-> [ops[o] EXCEPT !.timer = Max(@ - TickMs, 0)]]
    /\ limiter' = [limiter EXCEPT !.nextIn = Max(@ - TickMs, 0)]
    /\ http' = Min(http + TickMs, MaxGap)
    /\ UNCHANGED <<config, client, updates, held, parseVars>>

\* updateConfig(newConfig): the configuration and the axios defaults change at
\* once; limiter.updateSettings applies the new settings in a later task. The
\* new this.config has a new rateLimit object: an object from an earlier
\* getConfig() keeps the old one
updateConfig(c) ==
    /\ updates < MaxUpdates
    /\ updates' = updates + 1
    /\ config' = MergeConfig(config, c)
    /\ client' = ClientOf(MergeConfig(config, c))
    /\ limiter' = [limiter EXCEPT !.pending = Append(@, SettingsOf(MergeConfig(config, c)))]
    /\ held' = [held EXCEPT !.shared = FALSE]
    /\ UNCHANGED <<ops, http, parseVars>>

\* Bottleneck stores the settings of the oldest pending updateSettings call
ApplySettings ==
    /\ limiter.pending # <<>>
    /\ limiter' = [limiter EXCEPT !.pending = Tail(@),
                                  !.minTime = Head(limiter.pending).minTime,
                                  !.maxConcurrent = Head(limiter.pending).maxConcurrent]
    /\ UNCHANGED <<config, client, ops, updates, http, held, parseVars>>

\* a caller calls getConfig() and keeps what it returns: {...this.config} has
\* fields of its own, and its rateLimit is the rateLimit object of this.config
GetConfig ==
    /\ held' = [taken |-> TRUE, obj |-> getConfig(config), shared |-> TRUE]
    /\ UNCHANGED <<config, client, limiter, ops, updates, http, parseVars>>

\* the fields of the returned object a caller writes, and the value written
OwnFields == {"maxRetries", "timeout"}
NestedFields == {"minTime", "maxConcurrent"}
Written == Num(7)

\* the caller assigns to a field of the object it holds: returned[f] = v
WriteOwn(f) ==
    /\ held.taken
    /\ held' = [held EXCEPT !.obj[f] = Written]
    /\ UNCHANGED <<config, client, limiter, ops, updates, http, parseVars>>

\* the caller assigns to a field of its rateLimit: returned.rateLimit[f] = v;
\* while that object is the one of this.config, the write is one to this.config
WriteNested(f) ==
    /\ held.taken
    /\ held' = [held EXCEPT !.obj.rateLimit[f] = Written]
    /\ config' = IF held.shared THEN [config EXCEPT !.rateLimit[f] = Written] ELSE config
    /\ UNCHANGED <<client, limiter, ops, updates, http, parseVars>>

\* ------------------------------------------------------ specifications
NextOf(ids, calls, statuses, bodies, codes, newConfigs) ==
    \/ \E o \in ids, call \in calls : Invoke(o, call)
    \/ \E o \in ids : Register(o)
    \/ \E o \in ids : Start(o)
    \/ \E o \in ids, status \in statuses :
          \E body \in BodiesFor(status, bodies) : Response(o, status, body)
    \/ \E o \in ids, code \in codes : NetworkError(o, code)
    \/ \E o \in ids : Retry(o)
    \/ Tick
    \/ \E c \in newConfigs : updateConfig(c)
    \/ ApplySettings

\* Spec: concurrent calls on one instance, with few kinds of call and answer
ConcurrentCalls ==
    {[kind |-> "search", a1 |-> Str(<<"a">>), a2 |-> Num(1)],
     [kind |-> "search", a1 |-> Str(<<>>), a2 |-> Num(1)]}

ConcurrentInputs == {c \in ConstructorInputs : c.maxRetries = Num(1)}

Init == InitNet(ConcurrentInputs) /\ doc = BlankPage /\ parsed = NotParsed

\* the updates made while operations run: fewer retries, fewer slots
ConcurrentUpdates == {c \in UpdateInputs : c.rateLimit.minTime = Absent}

Next ==
    NextOf(OpIds, ConcurrentCalls, {200, 503}, {HomeLinkPage}, {"ECONNABORTED"},
           ConcurrentUpdates)

Spec == Init /\ [][Next]_vars

\* an HTTP attempt of o ends: the server answers or the request fails (the
\* timeout of the client ends a request that gets no answer)
AttemptEnds(o) ==
    \/ Response(o, 200, HomeLinkPage)
    \/ NetworkError(o, "ECONNABORTED")

\* the next step of an operation that has been invoked: at any moment at
\* most one of the four can be taken
Proceeds(o) == Register(o) \/ Start(o) \/ AttemptEnds(o) \/ Retry(o)

\* what the event loop guarantees: a timer that is due fires, the limiter
\* serves its queue and applies its settings, time passes and every HTTP
\* attempt ends; the caller is free to invoke and to update or not
Fairness ==
    /\ \A o \in OpIds : WF_vars(Proceeds(o))
    /\ WF_vars(Tick)
    /\ WF_vars(ApplySettings)

\* SpecLive: concurrent searches with the progress the event loop guarantees
LiveCalls == {[kind |-> "search", a1 |-> Str(<<"a">>), a2 |-> Num(1)]}
LiveUpdates == {c \in UpdateInputs : c.rateLimit.maxConcurrent # Absent}

NextLive ==
    NextOf(OpIds, LiveCalls, {200}, {HomeLinkPage}, {"ECONNABORTED"}, LiveUpdates)

SpecLive == Init /\ [][NextLive]_vars /\ Fairness

\* SpecCall: one call at a time, with every kind of call and answer
InitCall == InitNet(ConstructorInputs) /\ doc = BlankPage /\ parsed = NotParsed

NextCall == NextOf({1}, Calls, ServerStatuses, Bodies, NetworkErrorCodes, UpdateInputs)

SpecCall == InitCall /\ [][NextCall]_vars

\* SpecConfig: a caller that reads, writes to what it has read, and updates
NextConfig ==
    \/ GetConfig
    \/ \E f \in OwnFields : WriteOwn(f)
    \/ \E f \in NestedFields : WriteNested(f)
    \/ \E c \in UpdateInputs : updateConfig(c)
    \/ ApplySettings

SpecConfig == InitCall /\ [][NextConfig]_vars

\* SpecRetry: one search with four retries, answered by failures of every kind
RetryCalls == {[kind |-> "search", a1 |-> Str(<<"a">>), a2 |-> Num(1)]}

InitRetry == InitNet({DeepRetryConfig}) /\ doc = BlankPage /\ parsed = NotParsed

NextRetry ==
    NextOf({1}, RetryCalls, {200, 503}, {HomeLinkPage}, {"ECONNABORTED", RedirectLoopCode},
           UpdateInputs)

SpecRetry == InitRetry /\ [][NextRetry]_vars

\* SpecParse: the extraction routines applied to documents
RECURSIVE SeqsUpTo(_, _)
SeqsUpTo(S, n) ==
    IF n = 0 THEN {<<>>}
    ELSE LET shorter == SeqsUpTo(S, n - 1)
         IN shorter \cup {Append(q, x) : q \in {r \in shorter : Len(r) = n - 1}, x \in S}

HrefInputs ==
    {Undefined, Str(<<>>), Str(<<"a">>), Str(<<Slash, "a">>),
     Str(<<Slash, "a", Slash>>), Str(<<"h", Slash, "b", Slash>>)}

SectionInputs ==
    {[href |-> h, name |-> n, img |-> i, rating |-> <<"5", Space>>] :
        h \in HrefInputs, n \in {<<Space, "n">>}, i \in {Undefined, Str(<<"i">>)}}

NextInputs == {Undefined, Str(<<>>), Str(<<Slash, "2", Slash>>), Str(<<"x">>)}

ListingDocs ==
    {Document(<<>>, secs, n, <<>>, <<>>) :
        secs \in SeqsUpTo(SectionInputs, MaxSections), n \in NextInputs}

FormWithAction == [action |-> Str(<<Slash, "d", Slash, "7", Slash>>),
                   button |-> <<"z", Space, Space, "i", "p">>, title |-> Str(<<"t">>)]
FormWithoutAction == [action |-> Undefined, button |-> <<"m">>, title |-> Undefined]

\* a cell with text to trim and two forms, one without an action, and a
\* blank cell without a form
CellInputs ==
    {[text |-> <<Space, "v", Space>>, forms |-> <<FormWithoutAction, FormWithAction>>],
     [text |-> <<Space>>, forms |-> <<>>]}

RowInputs == SeqsUpTo(CellInputs, MaxCells)

TableDocs ==
    {Document(<<>>, <<>>, Undefined, rows, <<>>) : rows \in SeqsUpTo(RowInputs, MaxRows)}

\* tables of several rows: rows of one, two and three cells, with a name and
\* with a blank one
NamedCell == [text |-> <<Space, "v", Space>>, forms |-> <<FormWithoutAction, FormWithAction>>]
BlankCell == [text |-> <<Space>>, forms |-> <<>>]

RowShapes ==
    {<<NamedCell>>, <<NamedCell, NamedCell>>, <<BlankCell, NamedCell>>,
     <<NamedCell, BlankCell, NamedCell>>}

LongTableDocs ==
    {Document(<<>>, <<>>, Undefined, rows, <<>>) : rows \in SeqsUpTo(RowShapes, MaxTable)}

AnchorDocs ==
    {Document(as, <<>>, Undefined, <<>>, <<>>) :
        as \in SeqsUpTo({Undefined, Str(<<>>), Str(<<"u">>), Str(<<"w">>)}, MaxAnchors)}

OnclickInputs ==
    {Undefined, Str(<<"x">>), Str(SrcPrefix \o <<Quote>>),
     Str(<<"a">> \o SrcPrefix \o <<"v", Quote, "b", Quote>>)}

GalleryInputs ==
    {[itemtype |-> t, img |-> i, name |-> Undefined, uploadDate |-> Str(<<"d">>),
      duration |-> d, onclick |-> c] :
        t \in {Undefined, Str(<<"I">>), Str(<<"/">> \o VideoWord \o <<"O">>)},
        i \in {Undefined, Str(<<"i">>)},
        d \in {Undefined, Str(<<"P">>)},
        c \in OnclickInputs}

GalleryDocs ==
    {WithGallery(BlankPage, g) : g \in SeqsUpTo(GalleryInputs, MaxGallery)}

\* post headers: with and without a content attribute, with and without author
HeaderInputs ==
    {[category |-> <<Space, "m">>, dateContent |-> c, dateText |-> <<"t", Space>>,
      author |-> a] :
        c \in {Undefined, Str(<<"d">>)}, a \in {<<>>, <<"a">>}}

\* footer columns: labels in the first div that meet or miss the skipped keys,
\* a label in the text nodes, no label; values equal to the author, other, none
FooterLabels ==
    {AuthorLabel \o <<Colon>>,
     <<"C", "a", "t", "e", "g", "o", "r", "y">>,
     <<"C", "a", "t", "e", "g", "o", "r", "i", "e", "s", Colon>>,
     <<"G", "a", "m", "e", Space, Space, "A", "u", "t", "h", "o", "r">>}

FooterInputs ==
    {[div |-> l, text |-> <<>>, span |-> v] :
        l \in FooterLabels, v \in {<<>>, <<"a">>, <<"b", Space>>}}
    \cup {[div |-> <<>>, text |-> t, span |-> <<"b">>] :
            t \in {<<>>, <<Space, "S", "i", "z", "e", Colon>>}}

InfoDocs ==
    {WithInfo(BlankPage, h, f) : h \in HeaderInputs, f \in SeqsUpTo(FooterInputs, MaxFooter)}

QuickInputs ==
    {[href |-> h, name |-> <<"q">>, action |-> a] :
        h \in {Undefined, Str(<<Slash, "q", Slash>>)},
        a \in {Undefined, Str(<<Slash, "d", Slash, "7", Slash>>),
               Str(<<Slash, "d", Slash, "x", Slash>>)}}

QuickDocs ==
    {Document(<<>>, <<>>, Undefined, <<>>, qs) : qs \in SeqsUpTo(QuickInputs, MaxQuick)}

ParseDocs ==
    ListingDocs \cup TableDocs \cup AnchorDocs \cup GalleryDocs \cup QuickDocs
    \cup InfoDocs \cup LongTableDocs

InitParse == InitNet({EmptyConfig}) /\ doc \in ParseDocs /\ parsed = NotParsed

ParseSearch ==
    /\ parsed.fn = "none"
    /\ parsed' = [fn |-> "search", out |-> parseSearchResults(doc)]
    /\ UNCHANGED <<doc, netVars>>

ParseLatest ==
    /\ parsed.fn = "none"
    /\ parsed' = [fn |-> "mclatest", out |-> parseLatest(doc)]
    /\ UNCHANGED <<doc, netVars>>

ParseTable ==
    /\ parsed.fn = "none"
    /\ parsed' = [fn |-> "table", out |-> parseDownloadTable(doc)]
    /\ UNCHANGED <<doc, netVars>>

ParseDownload ==
    /\ parsed.fn = "none"
    /\ parsed' = [fn |-> "download", out |-> downloadResult(doc)]
    /\ UNCHANGED <<doc, netVars>>

ParseDetail ==
    /\ parsed.fn = "none"
    /\ parsed' = [fn |-> "detail", out |-> parseDetailResults(doc)]
    /\ UNCHANGED <<doc, netVars>>

\* the names of the original client's methods
OriginalName ==
    [search |-> "Mcpedl.search", detail |-> "Mcpedl.detail",
     download |-> "Mcpedl.download", mclatest |-> "Mcpedl.mclatest"]

\* a method of the original client works on the document
ParseOriginal(kind) ==
    /\ parsed.fn = "none"
    /\ parsed' = [fn |-> OriginalName[kind], out |-> Mcpedl_extract(kind, doc)]
    /\ UNCHANGED <<doc, netVars>>

NextParse ==
    \/ ParseSearch
    \/ ParseLatest
    \/ ParseTable
    \/ ParseDownload
    \/ ParseDetail
    \/ \E kind \in DOMAIN OriginalName : ParseOriginal(kind)

SpecParse == InitParse /\ [][NextParse]_vars

\* ================================================================ claims
\* what the claims call a blank string, a positive integer, a non-empty href
BlankString(v) == v.t # "string" \/ \A i \in 1..Len(v.s) : v.s[i] = Space
PositiveInteger(v) == v.t = "number" /\ v.n >= 1
NonEmptyHref(a) == a.t = "string" /\ Len(a.s) > 0

\* the validation codes the arguments of a call ask for
InvalidCodes(op) ==
    CASE op.kind = "search" ->
            (IF BlankString(op.a1) THEN {"INVALID_QUERY"} ELSE {})
            \cup (IF ~PositiveInteger(op.a2) THEN {"INVALID_PAGE"} ELSE {})
      [] op.kind = "detail" -> IF BlankString(op.a1) THEN {"INVALID_ID"} ELSE {}
      [] op.kind = "download" ->
            IF ~PositiveInteger(op.a1) THEN {"INVALID_DOWNLOAD_ID"} ELSE {}
      [] op.kind = "mclatest" -> IF ~PositiveInteger(op.a1) THEN {"INVALID_PAGE"} ELSE {}
      [] OTHER -> {}

InQueue(o) == \E i \in 1..Len(limiter.queue) : limiter.queue[i] = o

\* C1: a call with an invalid argument (blank query or id, page or download id
\* that is no positive integer) has failed with the validation code of an
\* invalid argument, and no limiter job was queued and no HTTP attempt made
\* for it.
C1_InvalidInputFailsBeforeNetwork ==
    \A o \in OpIds :
        InvalidCodes(ops[o]) # {} =>
            /\ ops[o].pc = "failed"
            /\ ops[o].err.code \in InvalidCodes(ops[o])
            /\ ops[o].attempts = 0
            /\ ops[o].status = 0
            /\ ~InQueue(o)

C1_Witness ==
    \E o \in OpIds :
        /\ ops[o].kind = "search" /\ ops[o].a1 = Str(<<Space>>)
        /\ ops[o].pc = "failed" /\ ops[o].err.code = "INVALID_QUERY"

\* C2: an operation whose request was answered with status 404 ends in the
\* not-found outcome (it fails with NOT_FOUND), never with a record or with
\* another failure.
C2_NotFoundOn404 ==
    \A o \in OpIds :
        Settled(ops[o]) /\ ops[o].status = 404 =>
            ops[o].pc = "failed" /\ ops[o].err.code = "NOT_FOUND"

\* C3: the attempts of a call never exceed the maxRetries read from the
\* configuration for it plus one, every attempt but the current one has
\* failed, a settled call makes no further attempt, and a call that is done
\* returned the body the server sent to its last attempt.
C3_AttemptsBounded ==
    /\ [](\A o \in OpIds :
            /\ ops[o].attempts <= ops[o].retries + 1
            /\ (updates = 0 /\ ops[o].attempts > 0 =>
                    ops[o].attempts <= config.maxRetries.n + 1)
            /\ Len(ops[o].errs) >= ops[o].attempts - 1
            /\ (ops[o].pc = "done" =>
                    /\ Len(ops[o].errs) = ops[o].attempts - 1
                    /\ ops[o].data = ops[o].sent))
    /\ [][\A o \in OpIds :
            Settled(ops[o]) => ops'[o].attempts = ops[o].attempts /\ Settled(ops'[o])]_vars

C3_Witness ==
    \E o \in OpIds :
        /\ ops[o].pc = "done" /\ ops[o].retries = 2 /\ ops[o].attempts = 3
        /\ ops[o].data = ListingPage

\* C4 as stated: in every state the operations holding a limiter slot are at
\* most the configured rateLimit.maxConcurrent.
C4_HoldersWithinConfigured ==
    Cardinality(Holders) <= config.rateLimit.maxConcurrent.n

\* C4 as amended: a slot is granted only while fewer operations than the
\* limiter's maxConcurrent hold one, so that the holders are at most the
\* configured maxConcurrent as long as updateConfig has not been called.
C4_SlotsGrantedWithinLimit ==
    /\ [](updates = 0 => Cardinality(Holders) <= config.rateLimit.maxConcurrent.n)
    /\ [][Cardinality(Holders') > Cardinality(Holders) =>
            /\ Cardinality(Holders) < limiter.maxConcurrent.n
            /\ Cardinality(Holders') = Cardinality(Holders) + 1]_vars

C4_Witness ==
    /\ Cardinality(Holders) = limiter.maxConcurrent.n
    /\ limiter.queue # <<>>

\* C5: whenever an HTTP request starts, retries included, the request before
\* it started at least the configured rateLimit.minTime earlier.
C5_RequestsSpacedByMinTime ==
    [][(\E o \in OpIds : ops'[o].attempts > ops[o].attempts) =>
            http >= config.rateLimit.minTime.n]_vars

\* a download whose last attempt was answered with a document
Fetched(op) ==
    /\ op.kind = "download" /\ Settled(op) /\ op.status # 0 /\ validateStatus(op.status)
    /\ op.sent # JsonNull

\* C6 as stated: download fails with DOWNLOAD_URL_NOT_FOUND when no <a> of the
\* document has a non-empty href, and otherwise returns the href of the first
\* <a>.
C6_UrlUnlessNoAnchorHasHref ==
    \A o \in OpIds :
        Fetched(ops[o]) =>
            LET as == ops[o].sent.anchors
            IN IF \A i \in 1..Len(as) : ~NonEmptyHref(as[i])
               THEN ops[o].pc = "failed" /\ ops[o].err.code = "DOWNLOAD_URL_NOT_FOUND"
               ELSE ops[o].pc = "done" /\ ops[o].ret.url = as[1]

\* C6 as amended: download never returns a missing or empty url; it fails
\* with DOWNLOAD_URL_NOT_FOUND when the document has no <a> or its first <a>
\* has no non-empty href, and otherwise returns the href of the first <a>.
C6_UrlOfFirstAnchor ==
    \A o \in OpIds :
        /\ (ops[o].kind = "download" /\ ops[o].pc = "done" => NonEmptyHref(ops[o].ret.url))
        /\ (Fetched(ops[o]) =>
                LET as == ops[o].sent.anchors
                IN IF as = <<>> \/ ~NonEmptyHref(as[1])
                   THEN ops[o].pc = "failed" /\ ops[o].err.code = "DOWNLOAD_URL_NOT_FOUND"
                   ELSE ops[o].pc = "done" /\ ops[o].ret.url = as[1])

C6_Witness ==
    \E o \in OpIds :
        /\ Fetched(ops[o]) /\ ops[o].sent = BareAnchorPage
        /\ ops[o].err.code = "DOWNLOAD_URL_NOT_FOUND"

\* the code and status the claim gives a failure of axios
ClassifiedAsClaimed(e) ==
    IF e.original.status >= 500
    THEN e.code = "SERVER_ERROR" /\ e.status = e.original.status
    ELSE IF e.original.code = "ECONNABORTED" THEN e.code = "TIMEOUT"
    ELSE e.code = "REQUEST_FAILED"

AllAttemptsFailed(op) == op.attempts > 0 /\ Len(op.errs) = op.attempts

\* C7: every failed attempt is classified SERVER_ERROR with the status for a
\* status >= 500, else TIMEOUT for ECONNABORTED, else REQUEST_FAILED; and an
\* operation that failed with every attempt classified alike ends with that
\* code.
C7_FailuresClassified ==
    \A o \in OpIds :
        /\ \A i \in 1..Len(ops[o].errs) : ClassifiedAsClaimed(ops[o].errs[i])
        /\ (ops[o].pc = "failed" /\ AllAttemptsFailed(ops[o]) =>
                /\ \E i \in 1..Len(ops[o].errs) : ops[o].err = ops[o].errs[i]
                /\ \A i \in 1..Len(ops[o].errs) :
                      (\A j \in 1..Len(ops[o].errs) : ops[o].errs[j].code = ops[o].errs[i].code)
                          => ops[o].err.code = ops[o].errs[i].code)

C7_Witness ==
    \E o \in OpIds :
        /\ ops[o].pc = "failed" /\ AllAttemptsFailed(ops[o]) /\ ops[o].attempts = 3
        /\ \A i \in 1..3 : ops[o].errs[i].code = "TIMEOUT"
        /\ ops[o].err.code = "TIMEOUT"

\* C8: an operation whose request was answered with status 429 fails with
\* RATE_LIMIT and status 429 and returns no record.
C8_RateLimitOn429 ==
    \A o \in OpIds :
        Settled(ops[o]) /\ ops[o].status = 429 =>
            /\ ops[o].pc = "failed"
            /\ ops[o].err.code = "RATE_LIMIT" /\ ops[o].err.status = 429

\* a listing is well formed when every href that is there has a non-empty
\* second-to-last segment
SecondToLast(s) == split(s)[Len(split(s)) - 1]
WellFormedHref(h) ==
    h.t = "string" => Len(split(h.s)) >= 2 /\ SecondToLast(h.s) # <<>>
WellFormedListing(d) ==
    \A i \in 1..Len(d.sections) : WellFormedHref(d.sections[i].href)
HasHrefAttribute(sec) == sec.href.t = "string"

\* C9: of a well-formed listing, search and mclatest return one item for
\* every section with an href, in document order, its id the non-empty
\* second-to-last segment of the href; the other sections give no item.
C9_OneItemPerHref ==
    parsed.fn \in {"search", "mclatest"} /\ WellFormedListing(doc) =>
        LET expected == SelectSeq(doc.sections, HasHrefAttribute)
            list == parsed.out.list
        IN /\ Len(list) = Len(expected)
           /\ \A i \in 1..Len(list) :
                 list[i].id # <<>> /\ list[i].id = SecondToLast(expected[i].href.s)

C9_Witness ==
    /\ parsed.fn = "mclatest" /\ WellFormedListing(doc)
    /\ Len(doc.sections) = 2
    /\ doc.sections[1].href = Undefined
    /\ Len(parsed.out.list) = 1 /\ parsed.out.list[1].id = <<"b">>

NotAvailable == <<"N", "/", "A">>
TitleOf(form) == IF Truthy(form.title) THEN form.title ELSE Null

\* the files of an item are the forms of the cell, in order
FilesFrom(files, forms) ==
    /\ Len(files) = Len(forms)
    /\ \A i \in 1..Len(files) :
          files[i].index = i /\ files[i].meta_title = TitleOf(forms[i])

\* C10 as stated: the item of a row of two cells has version "N/A" and the
\* files of the second cell; the item of a row of three cells has the text of
\* the middle cell, as it is, as version and the files of the third cell; the
\* name is that of the first cell.
C10_VersionVerbatim ==
    parsed.fn = "table" =>
        \A k \in 1..Len(parsed.out) :
            LET item == parsed.out[k]
                tds == doc.rows[item.index]
            IN /\ Len(tds) \in {2, 3}
               /\ item.name = trim(tds[1].text)
               /\ item.version = IF Len(tds) = 2 THEN NotAvailable ELSE tds[2].text
               /\ FilesFrom(item.files, tds[Len(tds)].forms)

\* C10 as amended: every row of two or three cells whose first cell is not
\* blank gives an item, and every item comes from such a row; its name is the
\* trimmed text of the first cell, its version "N/A" for two cells and the
\* trimmed text of the middle cell for three, its files those of the last
\* cell.
C10_VersionTrimmed ==
    parsed.fn = "table" =>
        /\ \A j \in 1..Len(doc.rows) :
              Len(doc.rows[j]) \in {2, 3} /\ ~BlankString(Str(doc.rows[j][1].text)) =>
                  \E k \in 1..Len(parsed.out) : parsed.out[k].index = j
        /\ \A k \in 1..Len(parsed.out) :
              LET item == parsed.out[k]
                  tds == doc.rows[item.index]
              IN /\ Len(tds) \in {2, 3}
                 /\ item.name = trim(tds[1].text)
                 /\ item.version = IF Len(tds) = 2 THEN NotAvailable ELSE trim(tds[2].text)
                 /\ FilesFrom(item.files, tds[Len(tds)].forms)

C10_Witness ==
    /\ parsed.fn = "table"
    /\ \E k \in 1..Len(parsed.out) :
          /\ Len(doc.rows[parsed.out[k].index]) = 3
          /\ doc.rows[parsed.out[k].index][2].text = <<Space, "v", Space>>
          /\ parsed.out[k].version = <<"v">>
          /\ Len(parsed.out[k].files) = 2

\* C11: every gallery entry of the detail record comes from one gallery
\* element; a video entry has the keys name, postTime, duration and video,
\* duration and video being null when the markup has none, and an image entry
\* has none of the four.
VideoKeys == {"name", "postTime", "duration", "video"}

C11_VideoKeysByType ==
    parsed.fn = "detail" =>
        /\ Len(parsed.out.gallery) = Len(doc.gallery)
        /\ \A k \in 1..Len(doc.gallery) :
              LET g == parsed.out.gallery[k]
                  el == doc.gallery[k]
              IN /\ g.type \in {"video", "image"}
                 /\ g.type = "video" =>
                       /\ VideoKeys \subseteq DOMAIN g
                       /\ el.duration = Undefined => g.duration = Null
                       /\ el.onclick = Undefined => g.video = Null
                 /\ g.type = "image" => VideoKeys \cap DOMAIN g = {}

C11_Witness ==
    /\ parsed.fn = "detail"
    /\ \E k \in 1..Len(parsed.out.gallery) :
          /\ parsed.out.gallery[k].type = "video"
          /\ parsed.out.gallery[k].duration = Null
          /\ parsed.out.gallery[k].video = Null


\* what the extraction routines of McpedlAPI do where the markup lacks an
\* element: an entry without an href is left out, a missing image gives '',
\* a form without an action gives the file id 0, no row gives an empty list
ListedSections == SelectSeq(doc.sections, LAMBDA sec : Truthy(sec.href))
ListedQuick == SelectSeq(doc.quick, LAMBDA q : Truthy(q.href))

ToleratesMissing ==
    /\ parsed.fn \in {"search", "mclatest"} =>
          /\ Len(parsed.out.list) = Len(ListedSections)
          /\ \A k \in 1..Len(ListedSections) :
                ListedSections[k].img = Undefined => parsed.out.list[k].img = Str(<<>>)
    /\ parsed.fn = "mclatest" =>
          /\ Len(parsed.out.quick) = Len(ListedQuick)
          /\ \A k \in 1..Len(ListedQuick) :
                ListedQuick[k].action = Undefined => parsed.out.quick[k].file = Num(0)
    /\ parsed.fn = "table" =>
          /\ doc.rows = <<>> => parsed.out = <<>>
          /\ \A k \in 1..Len(parsed.out) :
                LET forms == rowForms(doc.rows[parsed.out[k].index])
                IN /\ Len(parsed.out[k].files) = Len(forms)
                   /\ \A i \in 1..Len(forms) :
                         forms[i].action = Undefined => parsed.out[k].files[i].id = Num(0)
    /\ parsed.fn = "detail" =>
          \A k \in 1..Len(doc.gallery) :
             doc.gallery[k].img = Undefined => parsed.out.gallery[k].img = Str(<<>>)

\* C12: every extraction routine completes without raising on a document
\* with missing elements, leaving the entry out or giving a default: those of
\* McpedlAPI and those of the original client alike.
C12_ExtractionNeverRaises ==
    /\ ToleratesMissing
    /\ \A kind \in DOMAIN OriginalName :
          parsed.fn = OriginalName[kind] => parsed.out.ok


\* a URL or form action whose second-to-last segment is a number
NumericSegment(attr) ==
    /\ attr.t = "string"
    /\ atMinus2(attr.s).t = "string"
    /\ atMinus2(attr.s).s # <<>>
    /\ \A i \in 1..Len(atMinus2(attr.s).s) : IsDigit(atMinus2(attr.s).s[i])

\* C13: a numeric id (next-page number, quick-download file id, download file
\* id) in a returned record is always the number parsed from a well-formed URL
\* or form action: never NaN, never a substituted value.
C13_NoNaNNoSubstitutedId ==
    /\ parsed.fn = "search" /\ parsed.out.hasNextPage =>
          NumericSegment(doc.next) /\ parsed.out.nextPage.t = "number"
    /\ parsed.fn = "mclatest" =>
          \A k \in 1..Len(parsed.out.quick) :
             NumericSegment(ListedQuick[k].action) /\ parsed.out.quick[k].file.t = "number"
    /\ parsed.fn = "table" =>
          \A k \in 1..Len(parsed.out) :
             \A i \in 1..Len(parsed.out[k].files) :
                /\ NumericSegment(rowForms(doc.rows[parsed.out[k].index])[i].action)
                /\ parsed.out[k].files[i].id.t = "number"

\* an entry of McpedlAPI and an entry of the original client with the same
\* fields and values
SameItem(a, b) ==
    /\ a.name = b.name
    /\ Str(a.id) = b.id
    /\ a.img = b.img
    /\ a.rating = b.rating

SameList(as, bs) ==
    Len(as) = Len(bs) /\ \A k \in 1..Len(as) : SameItem(as[k], bs[k])

\* the record of an operation of McpedlAPI and that of the original client
SameRecord(kind, r, v) ==
    CASE kind = "search" ->
            /\ SameList(r.list, v.list)
            /\ r.hasNextPage = v.hasNextPage
            /\ r.nextPage = v.nextPage
      [] kind = "download" -> r.url = v.url
      [] kind = "mclatest" ->
            /\ SameList(r.list, v.list)
            /\ Len(r.quick) = Len(v.quick)
            /\ \A k \in 1..Len(r.quick) : r.quick[k] = v.quick[k]
      [] kind = "detail" ->
            /\ Len(r.gallery) = Len(v.gallery)
            /\ \A k \in 1..Len(r.gallery) : r.gallery[k].img = v.gallery[k].img
            /\ Len(r.list) = Len(v.list)

\* C14: an operation of McpedlAPI called with valid arguments and answered
\* by the server ends as the same operation of the original client does on
\* that response: it returns a record when the original returns one, with the
\* same fields and values, and gives the not-found result when the original
\* does.
C14_SameOutcomeAsOriginal ==
    \A o \in OpIds :
        Settled(ops[o]) /\ ops[o].attempts >= 1 /\ ops[o].status # 0
            /\ ops[o].sent # JsonNull =>
            LET original == Mcpedl_respond(ops[o].kind, ops[o].status, ops[o].sent)
            IN /\ (ops[o].pc = "done") = (original.ok /\ original.value # PageNotFound)
               /\ ops[o].pc = "done" => SameRecord(ops[o].kind, ops[o].ret, original.value)


\* the call that op was made with
CallOf(op) == [kind |-> op.kind, a1 |-> op.a1, a2 |-> op.a2]

\* C15: every failure of an operation is a McpedlError with a code: the
\* error of the validation, the error of one of its failed attempts or
\* DOWNLOAD_URL_NOT_FOUND as it was thrown, and for a body that cannot be
\* loaded SEARCH_FAILED, DETAIL_FAILED, DOWNLOAD_FAILED or LATEST_FAILED with
\* the Error that was thrown as its original.
C15_FailuresAreMcpedlErrors ==
    \A o \in OpIds :
        ops[o].pc = "failed" =>
            /\ isMcpedlError(ops[o].err)
            /\ ops[o].err.code # ""
            /\ \/ ops[o].attempts = 0 /\ ops[o].err = validate(CallOf(ops[o]))
               \/ AllAttemptsFailed(ops[o])
                    /\ \E i \in 1..Len(ops[o].errs) : ops[o].err = ops[o].errs[i]
               \/ ops[o].kind = "download" /\ ops[o].attempts > Len(ops[o].errs)
                    /\ ops[o].err = McpedlError("DOWNLOAD_URL_NOT_FOUND", 0)
               \/ ops[o].sent = JsonNull
                    /\ ops[o].err.code = FailedCode[ops[o].kind]
                    /\ ops[o].err.original.code = "Error"

C15_Witness ==
    \E o \in OpIds :
        /\ ops[o].pc = "failed" /\ ops[o].sent = JsonNull
        /\ ops[o].err.code = "LATEST_FAILED"
        /\ ops[o].err.original.code = "Error"


\* the value getConfig must give for a field: the supplied one, or the default
Expected(supplied, default) == IF supplied = Absent THEN default ELSE supplied

\* C16: after new McpedlAPI(c), getConfig returns for every field c supplied
\* the supplied value and for every other field the default.
C16_GetConfigReturnsSupplied ==
    updates = 0 =>
        \A c \in ConstructorInputs :
            config = Construct(c) =>
                LET got == getConfig(config)
                IN /\ got.timeout = Expected(c.timeout, Num(DefaultTimeout))
                   /\ got.maxRetries = Expected(c.maxRetries, Num(DefaultMaxRetries))
                   /\ got.retryDelay = Expected(c.retryDelay, Num(DefaultRetryDelay))
                   /\ got.rateLimit.minTime =
                         Expected(c.rateLimit.minTime, Num(DefaultMinTime))
                   /\ got.rateLimit.maxConcurrent =
                         Expected(c.rateLimit.maxConcurrent, Num(DefaultMaxConcurrent))
                   /\ got.baseURL = Expected(c.baseURL, DefaultBaseURL)
                   /\ got.userAgent = Expected(c.userAgent, DefaultUserAgent)


\* a field after updateConfig(c): the value of c where c has the field, else
\* the value before
Updated(before, supplied) == IF supplied = Absent THEN before ELSE supplied

\* C17: updateConfig(c) changes the fields that c has and no other, rateLimit
\* field by field; getConfig returns the new values, the axios defaults carry
\* them, the limiter has them once it has taken the settings, and a job that
\* starts afterwards reads maxRetries and retryDelay from them.
C17_UpdateChangesSuppliedFields ==
    /\ [][updates' = updates + 1 =>
            \E c \in UpdateInputs :
                LET old == getConfig(config)
                    new == getConfig(config')
                IN /\ new.timeout = Updated(old.timeout, c.timeout)
                   /\ new.maxRetries = Updated(old.maxRetries, c.maxRetries)
                   /\ new.retryDelay = Updated(old.retryDelay, c.retryDelay)
                   /\ new.baseURL = Updated(old.baseURL, c.baseURL)
                   /\ new.userAgent = Updated(old.userAgent, c.userAgent)
                   /\ new.rateLimit.minTime =
                         Updated(old.rateLimit.minTime, c.rateLimit.minTime)
                   /\ new.rateLimit.maxConcurrent =
                         Updated(old.rateLimit.maxConcurrent, c.rateLimit.maxConcurrent)]_vars
    /\ [][\A o \in OpIds :
            ops[o].pc = "registered" /\ ops'[o].pc = "inflight" =>
                /\ ops'[o].retries = config.maxRetries.n
                /\ ops'[o].minTimeout = config.retryDelay.n]_vars
    /\ [](client = ClientOf(config))
    /\ [](limiter.pending = <<>> =>
            /\ limiter.minTime = config.rateLimit.minTime
            /\ limiter.maxConcurrent = config.rateLimit.maxConcurrent)

C17_Witness ==
    /\ updates = 1
    /\ config.maxRetries = Num(0)
    /\ config.retryDelay = Num(500)
    /\ config.rateLimit.minTime = Num(DefaultMinTime)
    /\ \E o \in OpIds :
          ops[o].pc = "failed" /\ ops[o].attempts = 1 /\ ops[o].retries = 0

\* the wait the claim gives the k-th retry
ClaimedWait(k, retryDelay) ==
    IF retryDelay * 2^(k - 1) <= 4 * retryDelay THEN retryDelay * 2^(k - 1)
    ELSE 4 * retryDelay

\* C18: the wait set before the k-th retry of an operation is
\* min(retryDelay * 2^(k-1), 4 * retryDelay), retryDelay being the value the
\* operation read from the configuration: the first wait is retryDelay, no wait
\* is shorter than the one before or longer than 4 * retryDelay, and the retry
\* is not made before the wait is over.
C18_ExponentialBackoff ==
    /\ [][\A o \in OpIds :
            ops[o].pc = "inflight" /\ ops'[o].pc = "backoff" =>
                LET k == ops[o].attempts
                    d == ops[o].minTimeout
                IN /\ ops'[o].timer = ClaimedWait(k, d)
                   /\ k = 1 => ops'[o].timer = d
                   /\ k > 1 => ops'[o].timer >= ClaimedWait(k - 1, d)
                   /\ ops'[o].timer <= 4 * d]_vars
    /\ [][\A o \in OpIds :
            ops[o].pc = "backoff" /\ ops'[o].pc = "inflight" => ops[o].timer = 0]_vars
    /\ [](\A o \in OpIds :
            updates = 0 /\ ops[o].attempts > 0 => ops[o].minTimeout = config.retryDelay.n)

C18_Witness ==
    \E o \in OpIds :
        /\ ops[o].pc = "backoff" /\ ops[o].attempts = 4
        /\ ops[o].minTimeout = 500 /\ ops[o].timer = 2000


\* the failures the claim calls temporary: a server error, a timeout, a
\* network failure
Temporary(e) ==
    \/ e.code \in {"SERVER_ERROR", "TIMEOUT"}
    \/ e.code = "REQUEST_FAILED" /\ e.original.code = "ERR_NETWORK"

\* C19: an attempt is followed by a wait and a retry only when it failed with
\* a temporary failure; an attempt that failed otherwise ends the operation.
C19_RetryOnlyTemporary ==
    [][\A o \in OpIds :
          ops[o].pc = "inflight" /\ ops'[o].pc = "backoff" =>
              Temporary(ops'[o].errs[Len(ops'[o].errs)])]_vars


\* the operations with an HTTP request in flight
InFlight == {o \in OpIds : ops[o].pc = "inflight"}

\* a client constructed with the default rate limits and not reconfigured
DefaultRateLimit ==
    /\ updates = 0
    /\ config.rateLimit = Construct(EmptyConfig).rateLimit

\* C20 as stated: with the default configuration at most one HTTP request is
\* in flight at any time.
C20_SingleInFlight == DefaultRateLimit => Cardinality(InFlight) <= 1

\* C20 as amended: as long as updateConfig has not been called, the HTTP
\* requests in flight are at most the configured rateLimit.maxConcurrent: two
\* with the default configuration, one with maxConcurrent 1.
C20_InFlightWithinMaxConcurrent ==
    /\ DefaultRateLimit => Cardinality(InFlight) <= DefaultMaxConcurrent
    /\ updates = 0 => Cardinality(InFlight) <= config.rateLimit.maxConcurrent.n

C20_Witness ==
    /\ DefaultRateLimit
    /\ Cardinality(InFlight) = DefaultMaxConcurrent

\* the operation-level codes of the catch clauses
WrapperCodes == {FailedCode[k] : k \in DOMAIN FailedCode}

\* how often the classification of e occurs among the failed attempts
Occurrences(errs, e) == Cardinality({i \in 1..Len(errs) : errs[i].code = e.code})

Exhausted(op) == op.pc = "failed" /\ AllAttemptsFailed(op) /\ op.attempts = op.retries + 1

\* C22: when every HTTP attempt ends, every invoked operation eventually
\* settles (it returns a record or rejects) and has by then left the limiter
\* queue and made its first attempt, also when it waited behind an operation
\* that fails with its retries used up.
C22_EveryOperationSettles ==
    \A o \in OpIds :
        (ops[o].pc # "new") ~> (Settled(ops[o]) /\ ops[o].attempts >= 1)

C22_Witness ==
    \E o, p \in OpIds :
        /\ limiter.maxConcurrent = Num(1)
        /\ Exhausted(ops[o])
        /\ ops[p].pc = "inflight" /\ ops[p].attempts = 1

\* op has made its first attempt: its limiter job has started
Started(op) == op.attempts >= 1

\* C23 as stated: an operation runs with the maxRetries and retryDelay that
\* were in effect when it was called, whatever updateConfig did since.
C23_OptionsOfCallTime ==
    \A o \in OpIds :
        Started(ops[o]) =>
            /\ ops[o].retries = ops[o].calledRetries
            /\ ops[o].minTimeout = ops[o].calledDelay
            /\ ops[o].maxTimeout = 4 * ops[o].calledDelay

\* C23 as amended: an operation runs with the maxRetries and retryDelay that
\* are in effect when its limiter job starts, and no later updateConfig (nor
\* any other step) changes them; an update made while the operation waits in
\* the limiter queue therefore is the one it uses.
C23_OptionsOfStartTime ==
    [][\A o \in OpIds :
          /\ (~Started(ops[o]) /\ Started(ops'[o]) =>
                /\ ops'[o].retries = config.maxRetries.n
                /\ ops'[o].minTimeout = config.retryDelay.n
                /\ ops'[o].maxTimeout = 4 * config.retryDelay.n)
          /\ (Started(ops[o]) =>
                /\ ops'[o].retries = ops[o].retries
                /\ ops'[o].minTimeout = ops[o].minTimeout
                /\ ops'[o].maxTimeout = ops[o].maxTimeout)]_vars

C23_Witness ==
    \E o \in OpIds :
        /\ updates = 1
        /\ Exhausted(ops[o])
        /\ ops[o].retries = ops[o].calledRetries
        /\ ops[o].retries # config.maxRetries.n

\* C24: getConfig returns a snapshot: a write of the caller to the object it
\* got from getConfig, to a field of its own or to rateLimit.minTime or
\* rateLimit.maxConcurrent, leaves the configuration of the instance (what a
\* later getConfig returns), the client and the limiter as they were.
C24_ReturnedObjectIsSnapshot ==
    [][held.taken /\ held' # held /\ updates' = updates =>
          /\ getConfig(config') = getConfig(config)
          /\ client' = client
          /\ limiter' = limiter]_vars

\* settings that are those of the stored configuration
OfConfig(settings) ==
    /\ settings.minTime = config.rateLimit.minTime
    /\ settings.maxConcurrent = config.rateLimit.maxConcurrent

\* the client's defaults are those of the stored configuration
ClientInSync ==
    /\ client.timeout = config.timeout
    /\ client.baseURL = config.baseURL
    /\ client.userAgent = config.userAgent

\* C25 as stated: after construction and after every updateConfig call the
\* client's timeout, baseURL and User-Agent and the limiter's minTime and
\* maxConcurrent equal those of the stored configuration.
C25_SettingsInSync ==
    /\ ClientInSync
    /\ OfConfig(limiter)

\* C25 as amended: the client's timeout, baseURL and User-Agent always equal
\* those of the stored configuration; the limiter's minTime and maxConcurrent
\* equal config.rateLimit once it has applied the settings updateConfig handed
\* it, and until then the latest settings waiting to be applied do.
C25_SettingsFollowConfig ==
    /\ ClientInSync
    /\ limiter.pending = <<>> => OfConfig(limiter)
    /\ limiter.pending # <<>> => OfConfig(limiter.pending[Len(limiter.pending)])

C25_Witness ==
    /\ updates >= 1
    /\ limiter.pending = <<>>
    /\ config.rateLimit.minTime = Num(500)
    /\ limiter.minTime = Num(500)

\* the info map a detail extraction returned: that of McpedlAPI, or that of
\* the original client
ReturnedInfo ==
    IF parsed.fn = "detail" THEN parsed.out.info ELSE parsed.out.value.info

\* the footer columns of doc that carry a label and a value
LabelledColumns ==
    {i \in 1..Len(doc.footer) :
        footerLabel(doc.footer[i]) # <<>> /\ footerValue(doc.footer[i]) # <<>>}

\* C26: in the info map of a detail record, category, postDate and author
\* hold the values read from the post header whatever the footer columns
\* are; a footer column adds its key (the label in lower case, white space
\* runs as '_') unless it is a skipped key, and for McpedlAPI a column
\* labelled exactly 'Author' whose value differs from a non-empty header
\* author adds game_author.
C26_BaseFieldsFromHeader ==
    (parsed.fn = "detail" \/ (parsed.fn = "Mcpedl.detail" /\ parsed.out.ok)) =>
        /\ ReturnedInfo[CategoryKey] = trim(doc.header.category)
        /\ ReturnedInfo[PostDateKey] =
              (IF doc.header.dateContent.t = "string" /\ doc.header.dateContent.s # <<>>
               THEN doc.header.dateContent.s ELSE trim(doc.header.dateText))
        /\ ReturnedInfo[AuthorKey] = trim(doc.header.author)
        /\ \A i \in LabelledColumns :
              LET key == underscoreSpaces(toLowerCase(footerLabel(doc.footer[i])))
              IN /\ key \notin SkippedKeys => key \in DOMAIN ReturnedInfo
                 /\ (/\ parsed.fn = "detail"
                     /\ footerLabel(doc.footer[i]) = AuthorLabel
                     /\ trim(doc.header.author) # <<>>
                     /\ footerValue(doc.footer[i]) # trim(doc.header.author))
                        => GameAuthorKey \in DOMAIN ReturnedInfo

\* the positions of the table rows that have two or three cells and a name
KeptRows ==
    {j \in 1..Len(doc.rows) :
        Len(doc.rows[j]) \in {2, 3} /\ trim(doc.rows[j][1].text) # <<>>}

\* C27: parseDownloadTable returns one item for each row that has two or
\* three cells and a non-empty name, and no other; the index of an item is the
\* 1-based position of its row among all rows, so the indices increase
\* strictly and may leave gaps; the files of an item are numbered 1..k in
\* the order of the forms of the row's last cell.
C27_ItemIndexIsRowPosition ==
    parsed.fn = "table" =>
        /\ Len(parsed.out) = Cardinality(KeptRows)
        /\ \A k \in 1..Len(parsed.out) :
              LET item == parsed.out[k]
              IN /\ item.index \in KeptRows
                 /\ k > 1 => parsed.out[k - 1].index < item.index
                 /\ Len(item.files) = Len(doc.rows[item.index][Len(doc.rows[item.index])].forms)
                 /\ \A i \in 1..Len(item.files) : item.files[i].index = i

C27_Witness ==
    /\ parsed.fn = "table"
    /\ Len(doc.rows) = 3
    /\ Len(parsed.out) = 2
    /\ parsed.out[1].index = 1 /\ parsed.out[2].index = 3
    /\ Len(parsed.out[2].files) = 2

\* the next link of doc has a non-empty href
HasNextHref == doc.next.t = "string" /\ doc.next.s # <<>>

\* C28: in a search result hasNextPage is true exactly when nextPage is
\* present: without a next link, or with one that has no non-empty href,
\* hasNextPage is false and nextPage is absent; otherwise hasNextPage is true
\* and nextPage is the integer that the second-to-last '/'-separated segment
\* of the href spells.
C28_NextPageIffHasNext ==
    parsed.fn = "search" =>
        /\ parsed.out.hasNextPage = (parsed.out.nextPage # Undefined)
        /\ ~HasNextHref =>
              /\ parsed.out.hasNextPage = FALSE
              /\ parsed.out.nextPage = Undefined
        /\ HasNextHref =>
              /\ parsed.out.hasNextPage = TRUE
              /\ parsed.out.nextPage.t = "number"
              /\ Len(split(doc.next.s)) >= 2
              /\ parsed.out.nextPage = parseInt(Str(SecondToLast(doc.next.s)))


====
